---- MODULE Spec2Model ----
(***************************************************************************)
(* Expense-Tracker: the expense routes (src/routes/expenseRoutes.js) over  *)
(* the Expense collection.  The store is the collection; every request is  *)
(* handled in a request context (a slot) and is split at its awaits, so    *)
(* that the find and the write of an update or a delete interleave with    *)
(* the other requests.                                                     *)
(***************************************************************************)
EXTENDS Integers, Sequences, FiniteSets

VARIABLES store, nextId, slots

vars == <<store, nextId, slots>>

(***************************************************************************)
(* Bounds and input sets                                                   *)
(***************************************************************************)
\* Number of ObjectIds the collection ever hands out.
MaxId == 2

Ids == 1..MaxId

\* req.user._id as resolved by the protect middleware.
Users == {"A", "B"}

\* Request contexts that may be in flight at the same time.
SlotOrder == <<"r1", "r2">>
Slots == {SlotOrder[i] : i \in DOMAIN SlotOrder}

(***************************************************************************)
(* JSON / query-string values.  A field is either undefined (has = FALSE)  *)
(* or carries a value; text that is parsed later is kept as text: a date   *)
(* string "YYYY-MM-DD" is the sequence <<Y, M, D>>, the empty string is    *)
(* <<>>, a limit string is its sequence of decimal digits.                 *)
(***************************************************************************)
NoNum == [has |-> FALSE, val |-> 0]
NoStr == [has |-> FALSE, val |-> ""]
NoText == [has |-> FALSE, val |-> <<>>]
Num(n) == [has |-> TRUE, val |-> n]
Str(s) == [has |-> TRUE, val |-> s]
Text(t) == [has |-> TRUE, val |-> t]

\* JavaScript truthiness of a value that may be undefined.
TruthyNum(f) == f.has /\ f.val # 0
TruthyStr(f) == f.has /\ f.val # ""
TruthyText(f) == f.has /\ f.val # <<>>

(***************************************************************************)
(* Dates.  A Date is a count of days since 1970-01-01 (UTC); new Date(s)   *)
(* of an unparseable string is the Invalid Date.                           *)
(***************************************************************************)
InvalidDate == [ok |-> FALSE, t |-> 0]

IsLeap(y) == (y % 4 = 0 /\ y % 100 # 0) \/ y % 400 = 0

DaysInMonth(y, m) ==
    IF m = 2 THEN (IF IsLeap(y) THEN 29 ELSE 28)
    ELSE IF m \in {4, 6, 9, 11} THEN 30 ELSE 31

\* Days since the epoch of the civil date y-m-d.
DaysFromCivil(y, m, d) ==
    LET yy == IF m <= 2 THEN y - 1 ELSE y
        era == yy \div 400
        yoe == yy - era * 400
        mp == IF m > 2 THEN m - 3 ELSE m + 9
        doy == (153 * mp + 2) \div 5 + d - 1
        doe == yoe * 365 + yoe \div 4 - yoe \div 100 + doy
    IN  era * 146097 + doe - 719468

\* The civil date <<year, month, day>> of a count of days since the epoch.
CivilFromDays(z) ==
    LET zz == z + 719468
        era == zz \div 146097
        doe == zz - era * 146097
        yoe == (doe - doe \div 1460 + doe \div 36524 - doe \div 146096) \div 365
        doy == doe - (365 * yoe + yoe \div 4 - yoe \div 100)
        mp == (5 * doy + 2) \div 153
        d == doy - (153 * mp + 2) \div 5 + 1
        m == IF mp < 10 THEN mp + 3 ELSE mp - 9
        y == yoe + era * 400 + (IF m <= 2 THEN 1 ELSE 0)
    IN  <<y, m, d>>

\* new Date(text) for a date-only string.
NewDate(text) ==
    IF Len(text) = 3 /\ text[2] \in 1..12 /\ text[3] \in 1..DaysInMonth(text[1], text[2])
    THEN [ok |-> TRUE, t |-> DaysFromCivil(text[1], text[2], text[3])]
    ELSE InvalidDate

\* $year and $month of a stored date.
Year(t) == CivilFromDays(t)[1]
Month(t) == CivilFromDays(t)[2]

Jan05 == <<2024, 1, 5>>
Jan20 == <<2024, 1, 20>>
Feb01 == <<2024, 2, 1>>
Garbage == <<2024, 13, 1>>

(***************************************************************************)
(* Requests and responses                                                  *)
(***************************************************************************)
\* req.params.id: a well-formed ObjectId (the n-th one handed out) or a
\* string that is no ObjectId.
ObjectId(n) == [wf |-> TRUE, n |-> n]
Malformed == [wf |-> FALSE, n |-> 0]
IdParams == {ObjectId(n) : n \in Ids} \cup {Malformed}

\* req.body of POST / and PUT /:id.
Body(description, amount, category, date) ==
    [description |-> description, amount |-> amount, category |-> category, date |-> date]
NoBody == Body(NoStr, NoNum, NoStr, NoText)

\* req.query of the GET routes.
Query(startDate, endDate, category, limit) ==
    [startDate |-> startDate, endDate |-> endDate, category |-> category, limit |-> limit]
NoQuery == Query(NoText, NoText, NoStr, NoText)

Request(op, user, id, body, query) ==
    [op |-> op, user |-> user, id |-> id, body |-> body, query |-> query]
NoReq == Request("none", "", Malformed, NoBody, NoQuery)

\* res.status(status).json(...): a message, or the documents / rows sent.
Response(status, message, data) == [status |-> status, message |-> message, data |-> data]
NoRes == Response(0, "", <<>>)
ServerError == Response(500, "Server Error", <<>>)
NotFound == Response(404, "Expense not found", <<>>)
Removed == Response(200, "Expense removed", <<>>)

\* Bodies the clients send to POST / while updates and deletes are in flight.
PostBodies ==
    { Body(Str("lunch"), Num(10), Str("food"), Text(Jan05)),
      Body(Str("gift"), NoNum, Str("food"), Text(Jan05)) }

\* Bodies the clients send to POST / ahead of the GET routes.
SeedBodies ==
    { Body(Str("lunch"), Num(10), Str("food"), Text(Jan05)),
      Body(Str("taxi"), Num(10), Str("travel"), Text(Jan20)),
      Body(Str("snack"), Num(5), Str("food"), Text(Feb01)),
      Body(Str("gift"), NoNum, Str("food"), Text(Jan05)) }

\* The body the clients send to PUT /:id: no description, a zero amount, a
\* new category and a new date.
PutBodies == { Body(NoStr, Num(0), Str("travel"), Text(Feb01)) }

(***************************************************************************)
(* The Expense collection                                                  *)
(***************************************************************************)
Expense(id, user, description, amount, category, date) ==
    [_id |-> id, user |-> user, description |-> description, amount |-> amount,
     category |-> category, date |-> date]
NoDoc == Expense(0, "", "", 0, "", 0)

EmptyStore == [i \in {} |-> NoDoc]

\* Expense.findById(id): the document, or null (NoDoc).
FindById(id) == IF id.wf /\ id.n \in DOMAIN store THEN store[id.n] ELSE NoDoc

\* The schema's validation on save: the four fields are required and the
\* date must cast to a Date.
ExpenseValid(body) ==
    /\ body.description.has /\ body.description.val # ""
    /\ body.amount.has
    /\ body.category.has /\ body.category.val # ""
    /\ body.date.has /\ NewDate(body.date.val).ok

Idle == [pc |-> "idle", req |-> NoReq, doc |-> NoDoc, mod |-> {}, res |-> NoRes]
Found(req, doc, mod) == [pc |-> "found", req |-> req, doc |-> doc, mod |-> mod, res |-> NoRes]
Done(req, res) == [pc |-> "done", req |-> req, doc |-> NoDoc, mod |-> {}, res |-> res]

\* A request context takes a new request when it is not in the middle of one.
Free(s) == slots[s].pc # "found"

\* A new request is handled in the first free context.
Takes(s) ==
    /\ Free(s)
    /\ \A i, j \in DOMAIN SlotOrder : (i < j /\ SlotOrder[j] = s) => ~Free(SlotOrder[i])

Respond(s, req, res) == slots' = [slots EXCEPT ![s] = Done(req, res)]

(***************************************************************************)
(* POST /                                                                  *)
(***************************************************************************)
Post(s, user, body) ==
    LET req == Request("post", user, Malformed, body, NoQuery)
        expense == Expense(nextId, user, body.description.val, body.amount.val,
                           body.category.val, NewDate(body.date.val).t)
    IN  /\ Free(s)
        /\ nextId <= MaxId
        /\ IF ExpenseValid(body)
           THEN /\ store' = [i \in DOMAIN store \cup {nextId} |->
                                IF i = nextId THEN expense ELSE store[i]]
                /\ nextId' = nextId + 1
                /\ Respond(s, req, Response(201, "", <<expense>>))
           ELSE /\ UNCHANGED <<store, nextId>>
                /\ Respond(s, req, ServerError)

(***************************************************************************)
(* PUT /:id                                                                *)
(***************************************************************************)
\* a || b on the fields of the body.
OrStr(f, prior) == IF TruthyStr(f) THEN f.val ELSE prior
OrNum(f, prior) == IF TruthyNum(f) THEN f.val ELSE prior
OrDate(f, prior) == IF TruthyText(f) THEN NewDate(f.val).t ELSE prior

\* The document in memory after the four assignments.
Assign(expense, body) ==
    Expense(expense._id, expense.user,
            OrStr(body.description, expense.description),
            OrNum(body.amount, expense.amount),
            OrStr(body.category, expense.category),
            OrDate(body.date, expense.date))

Paths == {"description", "amount", "category", "date"}

\* The paths an assignment marked modified: those whose value changed.
Modified(old, new) ==
    {p \in Paths :
        \/ p = "description" /\ new.description # old.description
        \/ p = "amount" /\ new.amount # old.amount
        \/ p = "category" /\ new.category # old.category
        \/ p = "date" /\ new.date # old.date}

\* The update a save sends: $set of the modified paths on the stored document.
SetPaths(stored, doc, mod) ==
    Expense(stored._id, stored.user,
            IF "description" \in mod THEN doc.description ELSE stored.description,
            IF "amount" \in mod THEN doc.amount ELSE stored.amount,
            IF "category" \in mod THEN doc.category ELSE stored.category,
            IF "date" \in mod THEN doc.date ELSE stored.date)

\* The owner check without the comparison of the owner.
OwnsAny(expense, user) == expense # NoDoc

\* Whether the owner check of PUT and DELETE lets the request through.
Owns(expense, user) == expense # NoDoc /\ expense.user = user

\* findById, the owner check and the assignments, up to the await of save.
PutFind(s, user, id, body) ==
    LET req == Request("put", user, id, body, NoQuery)
        expense == FindById(id)
    IN  /\ Free(s)
        /\ UNCHANGED <<store, nextId>>
        /\ IF ~id.wf
           THEN Respond(s, req, ServerError)
           ELSE IF ~Owns(expense, user)
           THEN Respond(s, req, NotFound)
           ELSE slots' = [slots EXCEPT ![s] =
                    Found(req, Assign(expense, body), Modified(expense, Assign(expense, body)))]

\* Statuses a save can answer with when the document is gone from the
\* collection: the update matches nothing, which the driver reports as a
\* success or as an error depending on its version.
LostSaveStatus == {200, 500}

\* A save that inserts the document when the collection has none of its id.
PutSaveUpsert(s) ==
    LET cur == slots[s]
        n == cur.req.id.n
    IN  /\ cur.pc = "found"
        /\ cur.req.op = "put"
        /\ UNCHANGED nextId
        /\ store' = [i \in DOMAIN store \cup {n} |->
                        IF i = n
                        THEN (IF n \in DOMAIN store
                              THEN SetPaths(store[n], cur.doc, cur.mod) ELSE cur.doc)
                        ELSE store[i]]
        /\ Respond(s, cur.req, Response(200, "", <<cur.doc>>))

\* expense.save() and the response.
PutSave(s) ==
    LET cur == slots[s]
        n == cur.req.id.n
    IN  /\ cur.pc = "found"
        /\ cur.req.op = "put"
        /\ UNCHANGED nextId
        /\ IF n \in DOMAIN store
           THEN /\ store' = [store EXCEPT ![n] = SetPaths(@, cur.doc, cur.mod)]
                /\ Respond(s, cur.req, Response(200, "", <<cur.doc>>))
           ELSE /\ UNCHANGED store
                /\ \E status \in LostSaveStatus :
                      Respond(s, cur.req,
                              IF status = 200 THEN Response(200, "", <<cur.doc>>)
                              ELSE ServerError)

(***************************************************************************)
(* DELETE /:id                                                             *)
(***************************************************************************)
\* findById and the owner check, up to the await of findByIdAndDelete.
DeleteFind(s, user, id) ==
    LET req == Request("delete", user, id, NoBody, NoQuery)
        expense == FindById(id)
    IN  /\ Free(s)
        /\ UNCHANGED <<store, nextId>>
        /\ IF ~id.wf
           THEN Respond(s, req, ServerError)
           ELSE IF ~Owns(expense, user)
           THEN Respond(s, req, NotFound)
           ELSE slots' = [slots EXCEPT ![s] = Found(req, expense, {})]

\* A findByIdAndDelete that matches no document.
FindByIdAndDeleteNone(n) == store

\* Expense.findByIdAndDelete(id): removes the document when it is there.
FindByIdAndDelete(n) == [i \in DOMAIN store \ {n} |-> store[i]]

DeleteRemove(s) ==
    LET cur == slots[s]
    IN  /\ cur.pc = "found"
        /\ cur.req.op = "delete"
        /\ UNCHANGED nextId
        /\ store' = FindByIdAndDelete(cur.req.id.n)
        /\ Respond(s, cur.req, Removed)

(***************************************************************************)
(* The GET routes: filter, aggregation pipeline, response                  *)
(***************************************************************************)
\* const filter = { user }, with filter.date when both bounds are truthy
\* and filter.category (monthly-breakdown only) when category is truthy.
Filter(user, dated, gte, lte, byCategory, category) ==
    [user |-> user, dated |-> dated, gte |-> gte, lte |-> lte,
     byCategory |-> byCategory, category |-> category]

\* The date filter with || in place of &&.
DateFilterEither(user, query) ==
    IF TruthyText(query.startDate) \/ TruthyText(query.endDate)
    THEN Filter(user, TRUE, NewDate(query.startDate.val), NewDate(query.endDate.val), FALSE, "")
    ELSE Filter(user, FALSE, InvalidDate, InvalidDate, FALSE, "")

DateFilter(user, query) ==
    IF TruthyText(query.startDate) /\ TruthyText(query.endDate)
    THEN Filter(user, TRUE, NewDate(query.startDate.val), NewDate(query.endDate.val), FALSE, "")
    ELSE Filter(user, FALSE, InvalidDate, InvalidDate, FALSE, "")

CategoryFilter(filter, query) ==
    IF TruthyStr(query.category)
    THEN [filter EXCEPT !.byCategory = TRUE, !.category = query.category.val]
    ELSE filter

\* The filter carries an Invalid Date.
BadDates(filter) == filter.dated /\ (~filter.gte.ok \/ ~filter.lte.ok)

\* What a query holding an Invalid Date comes to: the query is rejected
\* (the value does not cast), or the value is written as time 0, the epoch.
InvalidDateOutcomes == {"rejected", "epoch"}

\* Expense.find(filter) / { $match: filter }: the documents that match.
Match(filter) ==
    {store[i] : i \in {j \in DOMAIN store :
        /\ store[j].user = filter.user
        /\ filter.dated => (filter.gte.t <= store[j].date /\ store[j].date <= filter.lte.t)
        /\ filter.byCategory => store[j].category = filter.category}}

\* { $sum: '$amount' } over a group.
RECURSIVE SumAmount(_)
SumAmount(docs) ==
    IF docs = {} THEN 0
    ELSE LET d == CHOOSE x \in docs : TRUE
         IN  d.amount + SumAmount(docs \ {d})

\* $group by category: one row a category.
Row(id, totalAmount, count) == [_id |-> id, totalAmount |-> totalAmount, count |-> count]

\* The grouping with every row summing all the documents.
GroupByCategoryAll(docs) ==
    {Row(c, SumAmount(docs), Cardinality({d \in docs : d.category = c})) :
        c \in {d.category : d \in docs}}

GroupByCategory(docs) ==
    {Row(c, SumAmount({d \in docs : d.category = c}),
         Cardinality({d \in docs : d.category = c})) : c \in {d.category : d \in docs}}

\* $group by year and month, and by year, month and category.
MonthKey(year, month, category) == [year |-> year, month |-> month, category |-> category]

GroupByMonth(docs) ==
    {Row(k, SumAmount({d \in docs : MonthKey(Year(d.date), Month(d.date), "") = k}), 0) :
        k \in {MonthKey(Year(d.date), Month(d.date), "") : d \in docs}}

GroupByMonthCategory(docs) ==
    {Row(k, SumAmount({d \in docs : MonthKey(Year(d.date), Month(d.date), d.category) = k}), 0) :
        k \in {MonthKey(Year(d.date), Month(d.date), d.category) : d \in docs}}

\* $group with _id: null: one row when there is a document, none otherwise.
GroupAll(docs) == IF docs = {} THEN {} ELSE {Row("", SumAmount(docs), 0)}

\* The sort keys.
\* The list sorted with { date: 1 }.
DateAsc(a, b) == a.date < b.date

DateDesc(a, b) == a.date > b.date
TotalDesc(a, b) == a.totalAmount > b.totalAmount

\* The category strings in their (lexicographic) order.
CategoryOrder == <<"", "food", "travel">>

StrLess(a, b) ==
    \E i, j \in DOMAIN CategoryOrder :
        CategoryOrder[i] = a /\ CategoryOrder[j] = b /\ i < j

MonthAsc(a, b) ==
    \/ a._id.year < b._id.year
    \/ a._id.year = b._id.year /\ a._id.month < b._id.month
    \/ a._id.year = b._id.year /\ a._id.month = b._id.month
         /\ StrLess(a._id.category, b._id.category)

\* Whether row a goes before row b under a sort specification.
Before(order, a, b) ==
    CASE order = "date: -1" -> DateDesc(a, b)
      [] order = "totalAmount: -1" -> TotalDesc(a, b)
      [] order = "year: 1, month: 1, category: 1" -> MonthAsc(a, b)

\* sort / $sort: the rows in an order that agrees with the sort key; rows
\* with equal keys come in any order.
Sort(rows, order) ==
    {seq \in [1..Cardinality(rows) -> rows] :
        /\ \A i, j \in 1..Cardinality(rows) : i # j => seq[i] # seq[j]
        /\ \A i, j \in 1..Cardinality(rows) : i < j => ~Before(order, seq[j], seq[i])}

\* parseInt of a string of decimal digits.
RECURSIVE ParseInt(_)
ParseInt(digits) ==
    IF Len(digits) <= 1 THEN digits[1]
    ELSE 10 * ParseInt(SubSeq(digits, 1, Len(digits) - 1)) + digits[Len(digits)]

\* const { limit = 5 } = req.query
DefaultLimit == 5

LimitOf(query) == IF query.limit.has THEN ParseInt(query.limit.val) ELSE DefaultLimit

\* $limit
Limit(seq, n) == SubSeq(seq, 1, IF n < Len(seq) THEN n ELSE Len(seq))

\* What each route answers on the documents its filter matched: the
\* possible response bodies.
ListOf(docs) == Sort(docs, "date: -1")

SummaryOf(docs) == Sort(GroupByCategory(docs), "totalAmount: -1")

MonthlyOf(docs) == Sort(GroupByMonth(docs), "year: 1, month: 1, category: 1")

BreakdownOf(docs) == Sort(GroupByMonthCategory(docs), "year: 1, month: 1, category: 1")

TopCategoriesOf(docs, limit) ==
    {Limit([i \in DOMAIN seq |-> Row(seq[i]._id, seq[i].totalAmount, 0)], limit) :
        seq \in Sort(GroupByCategory(docs), "totalAmount: -1")}

\* The total without the branch for an empty aggregate.
TotalOfRows(docs) ==
    {IF GroupAll(docs) # {}
     THEN <<[total |-> (CHOOSE r \in GroupAll(docs) : TRUE).totalAmount]>>
     ELSE <<>>}

TotalOf(docs) ==
    LET totalSpending == GroupAll(docs)
    IN  {<<[total |-> IF totalSpending # {}
                      THEN (CHOOSE r \in totalSpending : TRUE).totalAmount
                      ELSE 0]>>}

\* A route that queries with `filter` and answers one of `results`.
Answer(s, req, filter, results) ==
    /\ Free(s)
    /\ UNCHANGED <<store, nextId>>
    /\ IF BadDates(filter)
       THEN \E outcome \in InvalidDateOutcomes :
               IF outcome = "rejected"
               THEN Respond(s, req, ServerError)
               ELSE \E data \in results : Respond(s, req, Response(200, "", data))
       ELSE \E data \in results : Respond(s, req, Response(200, "", data))

\* GET /
List(s, user, query) ==
    Answer(s, Request("list", user, Malformed, NoBody, query),
           DateFilter(user, query), ListOf(Match(DateFilter(user, query))))

\* GET /summary
Summary(s, user, query) ==
    Answer(s, Request("summary", user, Malformed, NoBody, query),
           DateFilter(user, query), SummaryOf(Match(DateFilter(user, query))))

\* GET /monthly
Monthly(s, user) ==
    Answer(s, Request("monthly", user, Malformed, NoBody, NoQuery),
           DateFilter(user, NoQuery), MonthlyOf(Match(DateFilter(user, NoQuery))))

\* GET /monthly-breakdown
Breakdown(s, user, query) ==
    Answer(s, Request("breakdown", user, Malformed, NoBody, query),
           CategoryFilter(DateFilter(user, query), query),
           BreakdownOf(Match(CategoryFilter(DateFilter(user, query), query))))

\* GET /top-categories
TopCategories(s, user, query) ==
    Answer(s, Request("top", user, Malformed, NoBody, query),
           DateFilter(user, query),
           TopCategoriesOf(Match(DateFilter(user, query)), LimitOf(query)))

\* GET /total
Total(s, user, query) ==
    Answer(s, Request("total", user, Malformed, NoBody, query),
           DateFilter(user, query), TotalOf(Match(DateFilter(user, query))))

(***************************************************************************)
(* The server: requests of any user, an update or a delete in flight       *)
(* while other requests are handled                                        *)
(***************************************************************************)
Init ==
    /\ store = EmptyStore
    /\ nextId = 1
    /\ slots = [s \in Slots |-> Idle]

DoPost ==
    \E s \in Slots, user \in Users, body \in PostBodies : Takes(s) /\ Post(s, user, body)
DoPutFind ==
    \E s \in Slots, user \in Users, id \in IdParams, body \in PutBodies :
        Takes(s) /\ PutFind(s, user, id, body)
DoPutSave == \E s \in Slots : PutSave(s)
DoDeleteFind ==
    \E s \in Slots, user \in Users, id \in IdParams : Takes(s) /\ DeleteFind(s, user, id)
DoDeleteRemove == \E s \in Slots : DeleteRemove(s)

Next == DoPost \/ DoPutFind \/ DoPutSave \/ DoDeleteFind \/ DoDeleteRemove

Spec == Init /\ [][Next]_vars

(***************************************************************************)
(* The reports: a client that adds expenses and reads them back, one       *)
(* request after the other                                                 *)
(***************************************************************************)
\* startDate and endDate as the clients send them.
DateRanges ==
    { <<NoText, NoText>>,
      <<Text(Jan05), NoText>>,
      <<Text(<<>>), Text(Jan05)>>,
      <<Text(Jan05), Text(Jan20)>>,
      <<Text(Jan20), Text(Feb01)>>,
      <<Text(Jan05), Text(Garbage)>> }

DateQueries == {Query(r[1], r[2], NoStr, NoText) : r \in DateRanges}
BreakdownQueries == {[q EXCEPT !.category = c] : q \in DateQueries, c \in {NoStr, Str("food")}}
TopQueries ==
    {[q EXCEPT !.limit = l] : q \in DateQueries, l \in {NoText, Text(<<1>>), Text(<<2>>)}}

SeedPost ==
    \E s \in Slots, user \in Users, body \in SeedBodies : Takes(s) /\ Post(s, user, body)
DoList == \E s \in Slots, user \in Users, query \in DateQueries : Takes(s) /\ List(s, user, query)
DoSummary ==
    \E s \in Slots, user \in Users, query \in DateQueries : Takes(s) /\ Summary(s, user, query)
DoMonthly == \E s \in Slots, user \in Users : Takes(s) /\ Monthly(s, user)
DoBreakdown ==
    \E s \in Slots, user \in Users, query \in BreakdownQueries :
        Takes(s) /\ Breakdown(s, user, query)
DoTopCategories ==
    \E s \in Slots, user \in Users, query \in TopQueries :
        Takes(s) /\ TopCategories(s, user, query)
DoTotal == \E s \in Slots, user \in Users, query \in DateQueries : Takes(s) /\ Total(s, user, query)

ReportNext ==
    SeedPost \/ DoList \/ DoSummary \/ DoMonthly \/ DoBreakdown \/ DoTopCategories \/ DoTotal

SpecReports == Init /\ [][ReportNext]_vars

(***************************************************************************)
(* Properties of the reports (SpecReports).  One request is handled after  *)
(* the other there, so a response in a request context is the latest one   *)
(* and the store is as the handler read it.                                *)
(***************************************************************************)
Responded(s, op) == slots[s].pc = "done" /\ slots[s].req.op = op
Succeeded(s, op) == Responded(s, op) /\ slots[s].res.status = 200

\* startDate and endDate are both sent and neither is the empty string.
BothGiven(query) == TruthyText(query.startDate) /\ TruthyText(query.endDate)

\* startDate and endDate are both sent and both are dates.
BothParse(query) ==
    /\ query.startDate.has /\ NewDate(query.startDate.val).ok
    /\ query.endDate.has /\ NewDate(query.endDate.val).ok

\* The ids of the user's records, and of those inside the range of the query.
OwnIds(user) == {i \in DOMAIN store : store[i].user = user}
RangeIds(user, query) ==
    {i \in OwnIds(user) :
        /\ NewDate(query.startDate.val).t <= store[i].date
        /\ store[i].date <= NewDate(query.endDate.val).t}
FilteredIds(user, query) == IF BothGiven(query) THEN RangeIds(user, query) ELSE OwnIds(user)
CategoryIds(ids, category) == {i \in ids : store[i].category = category}
CategoriesOf(ids) == {store[i].category : i \in ids}
DocsOf(ids) == {store[i] : i \in ids}

\* The arithmetic sum of amount over the records with the given ids.
RECURSIVE AmountOf(_)
AmountOf(ids) ==
    IF ids = {} THEN 0
    ELSE LET m == CHOOSE i \in ids : \A j \in ids : j <= i
         IN  store[m].amount + AmountOf(ids \ {m})

\* The routes that take startDate and endDate, and what each answers on a
\* given set of records.
DateViews == {"list", "summary", "breakdown", "top", "total"}

ViewOf(req, ids) ==
    LET docs == IF req.op = "breakdown" /\ TruthyStr(req.query.category)
                THEN DocsOf(CategoryIds(ids, req.query.category.val))
                ELSE DocsOf(ids)
    IN  CASE req.op = "list" -> ListOf(docs)
          [] req.op = "summary" -> SummaryOf(docs)
          [] req.op = "breakdown" -> BreakdownOf(docs)
          [] req.op = "top" -> TopCategoriesOf(docs, LimitOf(req.query))
          [] req.op = "total" -> TotalOf(docs)

AnswersOn(s, ids) ==
    slots[s].res.status = 200 /\ slots[s].res.data \in ViewOf(slots[s].req, ids)

C4_Summary ==
    \A s \in Slots :
        Succeeded(s, "summary") =>
            LET ids == FilteredIds(slots[s].req.user, slots[s].req.query)
                rows == slots[s].res.data
            IN  /\ \A c \in CategoriesOf(ids) :
                      Cardinality({i \in DOMAIN rows : rows[i]._id = c}) = 1
                /\ \A i \in DOMAIN rows :
                      /\ rows[i]._id \in CategoriesOf(ids)
                      /\ rows[i].totalAmount = AmountOf(CategoryIds(ids, rows[i]._id))
                      /\ rows[i].count = Cardinality(CategoryIds(ids, rows[i]._id))
                /\ \A i \in DOMAIN rows :
                      i < Len(rows) => rows[i].totalAmount >= rows[i + 1].totalAmount

\* A summary answered a row that sums two records of different amounts.
C4_Witness ==
    \E s \in Slots :
        /\ Succeeded(s, "summary")
        /\ \E i \in DOMAIN slots[s].res.data :
              /\ slots[s].res.data[i].count = 2
              /\ slots[s].res.data[i].totalAmount = 15

\* C5: the total is the sum of amount over all of the owner's filtered
\* records, whatever their category; a filter that matches no record (with
\* dates that parse, when it has dates) answers total = 0 with status 200,
\* not an error and not a body without the field.
C5_Total ==
    \A s \in Slots :
        Responded(s, "total") =>
            LET ids == FilteredIds(slots[s].req.user, slots[s].req.query)
            IN  /\ slots[s].res.status = 200 =>
                      slots[s].res.data = <<[total |-> AmountOf(ids)]>>
                /\ (ids = {} /\ (BothGiven(slots[s].req.query) => BothParse(slots[s].req.query))) =>
                      slots[s].res = Response(200, "", <<[total |-> 0]>>)

\* The owner has records, the range of the query holds none of them, and the
\* total answered 0.
C5_Witness ==
    \E s \in Slots :
        /\ Succeeded(s, "total")
        /\ BothParse(slots[s].req.query)
        /\ OwnIds(slots[s].req.user) # {}
        /\ FilteredIds(slots[s].req.user, slots[s].req.query) = {}
        /\ slots[s].res.data = <<[total |-> 0]>>

\* C6, the rows: with a positive limit n over k categories the answer has
\* min(n, k) rows, each the sum of its category, in non-increasing order of
\* totalAmount, and no category left out sums to more than one answered.
C6_Rows ==
    \A s \in Slots :
        Succeeded(s, "top") =>
            LET ids == FilteredIds(slots[s].req.user, slots[s].req.query)
                rows == slots[s].res.data
                n == LimitOf(slots[s].req.query)
                k == Cardinality(CategoriesOf(ids))
            IN  /\ n > 0
                /\ Len(rows) = (IF n < k THEN n ELSE k)
                /\ \A i, j \in DOMAIN rows : i # j => rows[i]._id # rows[j]._id
                /\ \A i \in DOMAIN rows :
                      /\ rows[i]._id \in CategoriesOf(ids)
                      /\ rows[i].totalAmount = AmountOf(CategoryIds(ids, rows[i]._id))
                      /\ i < Len(rows) => rows[i].totalAmount >= rows[i + 1].totalAmount
                /\ \A c \in CategoriesOf(ids) :
                      (\A i \in DOMAIN rows : rows[i]._id # c) =>
                          \A i \in DOMAIN rows : AmountOf(CategoryIds(ids, c)) <= rows[i].totalAmount

\* C6, the ties: the same request on the same store is answered with the
\* same rows in the same order.
C6_SameAnswer ==
    \A s \in Slots :
        (/\ Succeeded(s, "top")
         /\ slots'[s].pc = "done"
         /\ slots'[s].req = slots[s].req
         /\ slots'[s].res.status = 200
         /\ store' = store) => slots'[s].res.data = slots[s].res.data

\* C6 as stated: top-categories with a positive limit n (5 when absent) over
\* k categories answers exactly the min(n, k) categories of highest summed
\* amount in non-increasing order, ties between equal sums being broken the
\* same way every time.
C6_Original == []C6_Rows /\ [][C6_SameAnswer]_vars

\* C8: after a successful add the owner's unfiltered list holds the new
\* record exactly once, and every list answered is in descending order of
\* date; an unfiltered list holds each of the owner's records exactly once.
C8_AddThenList ==
    \A s \in Slots :
        /\ (Responded(s, "post") /\ slots[s].res.status = 201) =>
              \A list \in ListOf(Match(DateFilter(slots[s].req.user, NoQuery))) :
                  Cardinality({i \in DOMAIN list : list[i] = slots[s].res.data[1]}) = 1
        /\ Succeeded(s, "list") =>
              LET list == slots[s].res.data
              IN  /\ \A i \in DOMAIN list : i < Len(list) => list[i].date >= list[i + 1].date
                  /\ ~BothGiven(slots[s].req.query) =>
                        \A n \in OwnIds(slots[s].req.user) :
                            Cardinality({i \in DOMAIN list : list[i] = store[n]}) = 1

\* An unfiltered list answered two records, the later one first.
C8_Witness ==
    \E s \in Slots :
        /\ Succeeded(s, "list")
        /\ ~BothGiven(slots[s].req.query)
        /\ Len(slots[s].res.data) = 2
        /\ slots[s].res.data[1].date > slots[s].res.data[2].date

(***************************************************************************)
(* Properties of the updates and deletes (Spec), where a request may find  *)
(* a record and write it after other requests were handled                 *)
(***************************************************************************)
\* The request of context s wrote in this step what it had found.
Writes(s, n) ==
    /\ slots[s].pc = "found"
    /\ slots[s].req.id.n = n
    /\ slots'[s].pc = "done"

\* C1, the responses: whatever the routes answer to a user is made of the
\* user's own records alone, and an update or a delete of a record of
\* another owner was answered 404 'Expense not found'.
C1_Responses ==
    /\ \A user \in Users, query \in {NoQuery, Query(Text(Jan05), Text(Feb01), NoStr, NoText)} :
          LET docs == Match(DateFilter(user, query))
              ids == FilteredIds(user, query)
          IN  /\ \A list \in ListOf(docs) : \A i \in DOMAIN list : list[i].user = user
              /\ \A rows \in SummaryOf(docs) : \A i \in DOMAIN rows :
                    /\ rows[i].totalAmount = AmountOf(CategoryIds(ids, rows[i]._id))
                    /\ rows[i].count = Cardinality(CategoryIds(ids, rows[i]._id))
              /\ \A rows \in TopCategoriesOf(docs, DefaultLimit) : \A i \in DOMAIN rows :
                    rows[i].totalAmount = AmountOf(CategoryIds(ids, rows[i]._id))
              /\ \A rows \in BreakdownOf(docs) : \A i \in DOMAIN rows :
                    rows[i].totalAmount =
                        AmountOf({n \in CategoryIds(ids, rows[i]._id.category) :
                                     /\ Year(store[n].date) = rows[i]._id.year
                                     /\ Month(store[n].date) = rows[i]._id.month})
              /\ TotalOf(docs) = {<<[total |-> AmountOf(ids)]>>}
    /\ \A s \in Slots :
          (/\ slots[s].pc = "done"
           /\ slots[s].req.op \in {"put", "delete"}
           /\ slots[s].req.id.wf
           /\ slots[s].req.id.n \in DOMAIN store
           /\ store[slots[s].req.id.n].user # slots[s].req.user) => slots[s].res = NotFound

\* C1, the store: a record changes or goes only by a request of its owner,
\* and never changes its owner.
C1_Step ==
    \A n \in DOMAIN store :
        /\ n \in DOMAIN store' => store'[n].user = store[n].user
        /\ (n \notin DOMAIN store' \/ store'[n] # store[n]) =>
              \E s \in Slots : Writes(s, n) /\ slots[s].req.user = store[n].user

\* C1: ownership isolation.  After any requests of any owners, no response to
\* an owner B holds or counts a record of another owner A, and an update or
\* delete by B with the id of A's record is answered 404 'Expense not found'
\* and leaves the record as it is.
C1_Isolation == []C1_Responses /\ [][C1_Step]_vars

\* An update or delete of a stored record by a user who does not own it was
\* answered 404.
C1_Witness ==
    \E s \in Slots :
        /\ slots[s].pc = "done"
        /\ slots[s].req.op \in {"put", "delete"}
        /\ slots[s].req.id.wf
        /\ slots[s].req.id.n \in DOMAIN store
        /\ store[slots[s].req.id.n].user # slots[s].req.user
        /\ slots[s].res = NotFound

\* C2 as stated: an update by the owner sets exactly the fields present in
\* the body and keeps every field absent from it; amount = 0 is an update,
\* so the stored amount is 0 afterwards.
C2_Update ==
    \A s \in Slots :
        LET n == slots[s].req.id.n
            body == slots[s].req.body
        IN  (/\ slots[s].req.op = "put"
             /\ Writes(s, n)
             /\ n \in DOMAIN store) =>
                /\ n \in DOMAIN store'
                /\ store'[n].description =
                      (IF body.description.has THEN body.description.val
                       ELSE store[n].description)
                /\ store'[n].amount =
                      (IF body.amount.has THEN body.amount.val ELSE store[n].amount)
                /\ store'[n].category =
                      (IF body.category.has THEN body.category.val ELSE store[n].category)
                /\ store'[n].date =
                      (IF body.date.has THEN NewDate(body.date.val).t ELSE store[n].date)

C2_Original == [][C2_Update]_vars

\* A delete is answered in this step without having found a record.
DeleteMisses(s) ==
    /\ slots[s].pc # "found"
    /\ slots'[s].pc = "done"
    /\ slots'[s] # slots[s]
    /\ slots'[s].req.op = "delete"
    /\ FindById(slots'[s].req.id) = NoDoc

\* C7 as stated: a delete of an id that does not exist, or that was deleted
\* already, is answered 404 every time, never a 500, and leaves the store
\* unchanged.
C7_Original ==
    [][\A s \in Slots : DeleteMisses(s) => (slots'[s].res = NotFound /\ store' = store)]_vars

\* C7 for the ids that are ObjectIds.
C7_ObjectIds ==
    [][\A s \in Slots :
          (DeleteMisses(s) /\ slots'[s].req.id.wf) =>
              (slots'[s].res = NotFound /\ store' = store)]_vars

\* C10: a deleted record never reappears.  An id that was handed out and is
\* gone from the store stays gone, also when an update that found the record
\* before the delete saves after it; no list or report reads it again.
C10_NoReappear ==
    [][\A n \in Ids :
          (n < nextId /\ n \notin DOMAIN store) =>
              /\ n \notin DOMAIN store'
              /\ \A user \in Users : \A d \in Match(DateFilter(user, NoQuery))' : d._id # n]_vars

\* An update found its record, the record was deleted, and the save came
\* after: it found nothing to update, and the record is not in the store.
C10_Witness ==
    \E s \in Slots :
        /\ slots[s].pc = "done"
        /\ slots[s].req.op = "put"
        /\ slots[s].req.id.wf
        /\ slots[s].res = ServerError
        /\ slots[s].req.id.n \notin DOMAIN store

(***************************************************************************)
(* Two deletes of one record by its owner, and nothing else                *)
(***************************************************************************)
RaceOwner == "A"
RaceId == ObjectId(1)

\* The stores the race starts from: the record of the race and any others.
SeedDocs ==
    {Expense(i, user, body.description.val, body.amount.val, body.category.val,
             NewDate(body.date.val).t) :
        i \in Ids, user \in Users, body \in {b \in SeedBodies : ExpenseValid(b)}}

RaceStores ==
    {st \in UNION {[D -> SeedDocs] : D \in SUBSET Ids} :
        /\ \A i \in DOMAIN st : st[i]._id = i
        /\ RaceId.n \in DOMAIN st
        /\ st[RaceId.n].user = RaceOwner}

RaceInit ==
    /\ store \in RaceStores
    /\ nextId = MaxId + 1
    /\ slots = [s \in Slots |-> Idle]

RaceDeleteFind ==
    \E s \in Slots : slots[s].pc = "idle" /\ DeleteFind(s, RaceOwner, RaceId)

RaceNext == RaceDeleteFind \/ DoDeleteRemove

SpecRace == RaceInit /\ [][RaceNext]_vars

\* C9: however the two deletes interleave, each is answered 'Expense
\* removed' or 404, and once both are answered at least one was answered
\* 'Expense removed' and the record is not in the store.
C9_Race ==
    /\ \A s \in Slots : slots[s].pc = "done" => slots[s].res \in {Removed, NotFound}
    /\ (\A s \in Slots : slots[s].pc = "done") =>
          /\ \E s \in Slots : slots[s].res = Removed
          /\ RaceId.n \notin DOMAIN store

\* Both deletes were answered 'Expense removed'.
C9_Witness == \A s \in Slots : slots[s].pc = "done" /\ slots[s].res = Removed

====
